---------------------------- MODULE Spec2Model ----------------------------
(***************************************************************************)
(* A model of the traceroute engine (package traceroute): one invocation  *)
(* of Run, with its two strategies.                                       *)
(*                                                                         *)
(*   runParallel   one probe process per TTL, a WaitGroup barrier, the    *)
(*                 search for the lowest TTL that reached the destination *)
(*                 and the ordered emission on the caller's channel.      *)
(*   runSequential one long-running process whose output is scanned line  *)
(*                 by line, every parsed hop forwarded at once.           *)
(*                                                                         *)
(* A line of tool output is a sequence of whitespace-separated tokens; the *)
(* regular expressions of the parsers are matched on the tokens.           *)
(***************************************************************************)
EXTENDS Integers, Sequences, FiniteSets, TLC

VARIABLES
    pc,           \* position of the goroutine that executes Run
    strategy,     \* "none" | "parallel" | "sequential"
    outcome,      \* "none" | "nil" | "ErrMaxHopsReached" | "error"
    cancelled,    \* ctx.Err() != nil
    consumer,     \* "receiving" | "stopped": can a send on hops proceed
    maxHops,      \* opts.MaxHops
    destIPs,      \* runParallel: destIPs
    destIP,       \* destIP (resolveIP)
    ttl,          \* runParallel: the launcher's loop variable
    unit,         \* runParallel: the probe goroutines, by launch order
    results,      \* runParallel: results, index 0 = TTL 1
    gotResult,    \* runParallel: gotResult
    emitted,      \* runParallel: number of values buffered in emitted
    wg,           \* runParallel: the WaitGroup counter
    trueFinalTTL, \* runParallel: trueFinalTTL
    i,            \* runParallel: index of the emission loop
    procTTL,      \* runSequential: the next hop distance the tool reports
    pending,      \* runSequential: hop (the value being sent)
    lastTTL,      \* runSequential: lastTTL
    reachedDest,  \* runSequential: reachedDest
    sent,         \* the hops sent on the caller's channel, in order
    writers,      \* history: per slot, the TTLs of the units that wrote it
    reads,        \* history: the slots the collector has read
    knownAtCancel,\* history: TTLs whose probe had produced its hop at Cancel
    sentAtCancel, \* history: Len(sent) at Cancel
    toolAvailable,\* history: "unknown" | "yes" | "no": can the tool be started
    proc,         \* runSequential: cmd's process: "none" | "running" | "killed" | "exited"
    chanClosed,   \* App: close(hopChan) has run
    parseFirst,   \* parsers: a call that is remembered, to compare with
    parseLast,    \* parsers: the latest call and what it returned
    cmd,          \* the command line built for the tool, and its -w argument
    saveState,    \* App: "none" | "saved" | "failed" | "skipped": the save of the run
    dbRows,       \* db: the rows of table hops written for the run
    shown,        \* front end: historicalHops (<<>> when none is loaded)
    mu,           \* App: the caller that holds a.mu, 0 when it is free
    aCancel,      \* App: the context a.cancel cancels, 0 when a.cancel is nil
    liveCtx,      \* App: the run contexts created and not cancelled
    created,      \* App: the number of run contexts created
    caller,       \* App: where each caller of StartTraceroute / StopTraceroute is
    hopMap,       \* front end: hopMap, its entries in insertion order
    received,     \* history: the 'hop' events received since handleStart
    saveTx,       \* db: the call of SaveTrace in progress, and its transaction
    stored,       \* db: the committed rows of tables traces and hops
    fe,           \* front end: state, the listeners, savedTraceId, and history
    goRuns,       \* App: the goroutines StartTraceroute started, per run
    goApp,        \* App: calls of StartTraceroute not yet begun, runs begun, a.cancel
    events        \* the events emitted and not yet delivered to the front end

parseVars == <<parseFirst, parseLast>>

\* the variables outside Run: the engine's steps leave them alone
dbVars == <<saveState, dbRows, shown>>

handleVars == <<mu, aCancel, liveCtx, created, caller>>

uiVars == <<hopMap, received>>

saveVars == <<saveTx, stored>>

eventVars == <<fe, goRuns, goApp, events>>

benchVars == <<parseVars, cmd, dbVars, handleVars, uiVars, saveVars, eventVars>>

engineVars == <<pc, strategy, outcome, cancelled, consumer, maxHops, destIPs, destIP,
          ttl, unit, results, gotResult, emitted, wg, trueFinalTTL, i,
          procTTL, pending, lastTTL, reachedDest, sent, writers, reads,
          knownAtCancel, sentAtCancel, toolAvailable, proc, chanClosed>>

vars == <<engineVars, benchVars>>

-----------------------------------------------------------------------------
(* Bounds of the model *)

MaxHopsBound == 3
CallerCount == 3
MaxStarts == 5
MaxEvents == 4
MaxSaveHops == 2
MaxSaves == 2
MaxRuns == 2
MaxRunHops == 1

(* Inputs *)

Dest1 == "93.184.216.34"
Dest2 == "93.184.216.35"
HostName == "example.com"
IPs == {Dest1, Dest2}
RTTs == {12}
RdnsName == "rdns.example"

Slots == 0 .. (MaxHopsBound - 1)
TTLs == 1 .. MaxHopsBound

-----------------------------------------------------------------------------
(* Hop *)

Hop(t, ip, hostname, rtt, success, isFinal, isTimeout) ==
    [TTL |-> t, IP |-> ip, Hostname |-> hostname, RTT |-> rtt,
     Success |-> success, IsFinal |-> isFinal, IsTimeout |-> isTimeout]

ZeroHop == Hop(0, "", "", 0, FALSE, FALSE, FALSE)


-----------------------------------------------------------------------------
(* Lines of tool output: sequences of tokens.  k is the shape of the token, *)
(* n its number (digits) and s its text.                                    *)

Tok(k, n, s) == [k |-> k, n |-> n, s |-> s]

Num(n)     == Tok("num", n, ToString(n))      \* 12
Lt(n)      == Tok("lt", n, "<" \o ToString(n)) \* <1
Ip(a)      == Tok("ip", 0, a)                  \* 93.184.216.34
ParenIp(a) == Tok("pip", 0, a)                 \* (93.184.216.34)
BrIp(a)    == Tok("bip", 0, a)                 \* [93.184.216.34]
Word(w)    == Tok("word", 0, w)                \* any other text
Star       == Tok("star", 0, "*")
Ms         == Tok("ms", 0, "ms")

UnixNumericLine(t, a, r)  == <<Num(t), Ip(a), Num(r), Ms>>
UnixNamedLine(t, h, a, r) == <<Num(t), Word(h), ParenIp(a), Num(r), Ms>>
UnixTimeoutLine(t)        == <<Num(t), Star>>
UnixStarFirstLine(t, a, r) == <<Num(t), Star, Ip(a), Num(r), Ms>>
UnixStarNamedLine(t, a, r) == <<Num(t), Star, ParenIp(a), Num(r), Ms>>
UnixHeaderLine            == <<Word("traceroute"), Word("to"), Word(HostName)>>
WarningLine               == <<Word("warning:"), Word("multiple"), Word("addresses")>>
BlankLine                 == <<>>

WinHopLine(t, a, r)  == <<Num(t), Lt(r), Ms, Num(r), Ms, Num(r), Ms, Ip(a)>>
WinTimeoutLine(t)    == <<Num(t), Star, Star, Star, Word("Request"), Word("timed"), Word("out.")>>
WinStarFirstLine(t, a, r) == <<Num(t), Star, Num(r), Ms, Num(r), Ms, Ip(a)>>
WinStarLaterLine(t, a, r) == <<Num(t), Num(r), Ms, Star, Num(r), Ms, Ip(a)>>
WinNamedLine(t, h, a, r) ==
    <<Num(t), Lt(r), Ms, Num(r), Ms, Num(r), Ms, Word(h), BrIp(a)>>
WinHeaderLine        == <<Word("Tracing"), Word("route"), Word("to"), Word(HostName)>>
WinTrailerLine       == <<Word("Trace"), Word("complete.")>>

\* strings.HasPrefix(line, w) for a line that starts with a word
HasPrefixWord(line, w) == Len(line) > 0 /\ line[1].k = "word" /\ line[1].s = w

\* strings.Contains(line, "*")
ContainsStar(line) == \E p \in 1 .. Len(line) : line[p].k = "star"

\* reUnixTimeout: ^\s*(\d+)\s+\*
reUnixTimeout(line) ==
    Len(line) >= 2 /\ line[1].k = "num" /\ line[2].k = "star"

\* reUnixHopNumeric: ^\s*(\d+)\s+(\d+\.\d+\.\d+\.\d+)\s+([\d.]+)\s+ms
reUnixHopNumeric(line) ==
    /\ Len(line) >= 4
    /\ line[1].k = "num" /\ line[2].k = "ip" /\ line[3].k = "num" /\ line[4].k = "ms"

\* reUnixHopNamed: ^\s*(\d+)\s+(\S+)\s+\((\d+\.\d+\.\d+\.\d+)\)\s+([\d.]+)\s+ms
reUnixHopNamed(line) ==
    /\ Len(line) >= 5
    /\ line[1].k = "num" /\ line[3].k = "pip" /\ line[4].k = "num" /\ line[5].k = "ms"

\* The result of a parser: the hop and the ok flag.
Parsed(h)  == [hop |-> h, ok |-> TRUE]
NotParsed  == [hop |-> ZeroHop, ok |-> FALSE]

\* Mutant of parseUnixLine: the destination address is kept in a package
\* variable, so a call compares with the address of the call before it.
parseUnixLineSticky(line, dIP) ==
    LET d == IF parseLast.parser = "unix" THEN parseLast.dIP ELSE dIP
    IN  IF reUnixTimeout(line) /\ ContainsStar(line)
              /\ ~reUnixHopNumeric(line) /\ ~reUnixHopNamed(line)
        THEN Parsed(Hop(line[1].n, "", "", 0, FALSE, FALSE, TRUE))
        ELSE IF reUnixHopNumeric(line)
        THEN Parsed(Hop(line[1].n, line[2].s, "", line[3].n, TRUE,
                        d # "" /\ line[2].s = d, FALSE))
        ELSE IF reUnixHopNamed(line)
        THEN Parsed(Hop(line[1].n, line[3].s, line[2].s, line[4].n, TRUE,
                        d # "" /\ line[3].s = d, FALSE))
        ELSE NotParsed

parseUnixLine(line, dIP) ==
    IF reUnixTimeout(line) /\ ContainsStar(line)
          /\ ~reUnixHopNumeric(line) /\ ~reUnixHopNamed(line)
    THEN Parsed(Hop(line[1].n, "", "", 0, FALSE, FALSE, TRUE))
    ELSE IF reUnixHopNumeric(line)
    THEN Parsed(Hop(line[1].n, line[2].s, "", line[3].n, TRUE,
                    dIP # "" /\ line[2].s = dIP, FALSE))
    ELSE IF reUnixHopNamed(line)
    THEN Parsed(Hop(line[1].n, line[3].s, line[2].s, line[4].n, TRUE,
                    dIP # "" /\ line[3].s = dIP, FALSE))
    ELSE NotParsed

\* reWinTimeout: ^\s*(\d+)\s+\*
reWinTimeout(line) ==
    Len(line) >= 2 /\ line[1].k = "num" /\ line[2].k = "star"

\* one "(?:<?\d+\s+ms\s+)" group at tokens p, p+1, followed by more text
WinRttGroup(line, p) ==
    Len(line) >= p + 2 /\ line[p].k \in {"num", "lt"} /\ line[p + 1].k = "ms"

\* reWinHop: ^\s*(\d+)\s+(?:<?\d+\s+ms\s+){1,3}\s*(\S+)
\* the number of groups of the (greedy) match, 0 when the line does not match
reWinHopGroups(line) ==
    IF ~(Len(line) >= 1 /\ line[1].k = "num") \/ ~WinRttGroup(line, 2) THEN 0
    ELSE IF WinRttGroup(line, 4) /\ WinRttGroup(line, 6) THEN 3
    ELSE IF WinRttGroup(line, 4) THEN 2
    ELSE 1

\* Mutant of parseWindowsLine: a hop line is tried first and a lost probe on
\* it sets IsTimeout.
parseWindowsLineStarFlag(line, dIP) ==
    IF reWinHopGroups(line) # 0
    THEN LET host == line[2 * reWinHopGroups(line) + 2].s
         IN  Parsed(Hop(line[1].n, host, "", line[2].n, TRUE,
                        dIP # "" /\ host = dIP, ContainsStar(line)))
    ELSE IF reWinTimeout(line) /\ ContainsStar(line)
    THEN Parsed(Hop(line[1].n, "", "", 0, FALSE, FALSE, TRUE))
    ELSE NotParsed

parseWindowsLine(line, dIP) ==
    IF reWinTimeout(line) /\ ContainsStar(line)
    THEN Parsed(Hop(line[1].n, "", "", 0, FALSE, FALSE, TRUE))
    ELSE IF reWinHopGroups(line) = 0 THEN NotParsed
    ELSE LET host == line[2 * reWinHopGroups(line) + 2].s   \* m[2], one token
             rtt  == line[2].n                               \* rtts[0][1]
             ip   == host       \* m[2] is \S+ and holds no " ["
         IN  Parsed(Hop(line[1].n, ip, "", rtt, TRUE,
                        dIP # "" /\ (ip = dIP \/ host = dIP), FALSE))

-----------------------------------------------------------------------------
(* Platform and destination *)

GOOS == {"darwin", "linux", "windows", "plan9"}

\* Mutant of tracerouteBinary: a path is returned without any check.
tracerouteBinaryUnchecked(goos, lookPathOK) == TRUE

\* tracerouteBinary: TRUE when a binary is returned, FALSE on an error
tracerouteBinary(goos, lookPathOK) ==
    CASE goos = "darwin" -> TRUE
      [] goos = "linux"  -> lookPathOK
      [] OTHER           -> FALSE

\* The fact tracerouteBinary finds out: /usr/sbin/traceroute on darwin, a
\* traceroute on PATH on linux, no tool on any other platform.
ToolInstalled(goos, onPath) ==
    \/ goos = "darwin"
    \/ goos = "linux" /\ onPath

\* resolveIPs: the sets it can return for dest
resolveIPs(dest) ==
    IF dest \in IPs THEN {{dest}}       \* net.ParseIP(host) != nil
    ELSE {{}, {Dest1, Dest2}}           \* LookupHost failed / its IPv4 answers

\* resolveIP: any element of a resolved set, dest itself when the set is empty
resolveIP(dest) ==
    UNION {IF set = {} THEN {dest} ELSE set : set \in resolveIPs(dest)}

Dests == {Dest1, HostName}

-----------------------------------------------------------------------------
(* The state after construction: Run has been called and has not started. *)

IdleUnit == [pc |-> "idle", ttl |-> 0, hop |-> ZeroHop]

\* Run has been called with some Options and has not started
EngineStart ==
    /\ pc = "start"
    /\ strategy = "none"
    /\ outcome = "none"
    /\ cancelled = FALSE
    /\ consumer = "receiving"
    /\ destIPs = {}
    /\ destIP = ""
    /\ ttl = 0
    /\ unit = [g \in TTLs |-> IdleUnit]
    /\ results = [s \in Slots |-> ZeroHop]
    /\ gotResult = [s \in Slots |-> FALSE]
    /\ emitted = 0
    /\ wg = 0
    /\ trueFinalTTL = 0
    /\ i = 0
    /\ procTTL = 0
    /\ pending = ZeroHop
    /\ lastTTL = 0
    /\ reachedDest = FALSE
    /\ sent = <<>>
    /\ writers = [s \in Slots |-> <<>>]
    /\ reads = {}
    /\ knownAtCancel = {}
    /\ sentAtCancel = 0
    /\ toolAvailable = "unknown"
    /\ proc = "none"
    /\ chanClosed = FALSE

\* Options with a hop budget of at least one
EngineInit == maxHops \in 1 .. MaxHopsBound /\ EngineStart

\* no parser call has been made
NoParse == [parser |-> "none", line |-> <<>>, dIP |-> "", hop |-> ZeroHop, ok |-> FALSE]

ParseIdle == parseFirst = NoParse /\ parseLast = NoParse

\* no command line has been built
NoCmd == [path |-> "none", goos |-> "", timeoutMs |-> 0, waitMs |-> 0]

\* nothing has been saved or loaded
DbIdle == saveState = "none" /\ dbRows = <<>> /\ shown = <<>>

\* the goroutines that call the bound methods of App
Callers == 1 .. CallerCount

\* NewApp(): a.cancel is nil, a.mu is free, no call is running
HandlesIdle ==
    /\ mu = 0
    /\ aCancel = 0
    /\ liveCtx = {}
    /\ created = 0
    /\ caller = [t \in Callers |-> "idle"]

\* createSignal(new Map()): no live hop
UiIdle == hopMap = <<>> /\ received = <<>>

\* migrate(): both tables exist and are empty
NoRows == [traces |-> <<>>, hops |-> <<>>]

\* SaveTrace has not been called
NoTx == [pc |-> "idle", hops |-> <<>>, before |-> NoRows, work |-> NoRows,
         id |-> 0, k |-> 0, err |-> FALSE]

SaveIdle == saveTx = NoTx /\ stored = NoRows

\* the runs StartTraceroute can begin
Runs == 1 .. MaxRuns

\* a run that StartTraceroute has not begun
NoRun == [runner |-> "none", consumer |-> "none", outcome |-> "none",
          cancelled |-> FALSE, chan |-> 0, produced |-> 0, collected |-> 0,
          saved |-> FALSE]

\* the component is mounted: state 'idle', no listener, no call made
EventsIdle ==
    /\ fe = [state |-> "idle", listening |-> FALSE, run |-> 0, stopping |-> FALSE,
             savedTraceId |-> 0, stale |-> ""]
    /\ goRuns = [r \in Runs |-> NoRun]
    /\ goApp = [calls |-> 0, started |-> 0, current |-> 0]
    /\ events = <<>>

BenchIdle ==
    /\ ParseIdle /\ cmd = NoCmd /\ DbIdle /\ HandlesIdle /\ UiIdle /\ SaveIdle
    /\ EventsIdle

Init == EngineInit /\ BenchIdle

parVars == <<ttl, unit, results, gotResult, emitted, wg, trueFinalTTL, i,
             writers, reads>>
seqVars == <<procTTL, pending, lastTTL, reachedDest>>
envVars == <<cancelled, consumer, knownAtCancel, sentAtCancel>>
appVars == <<toolAvailable, proc, chanClosed>>

-----------------------------------------------------------------------------
(* The caller *)

\* The TTLs whose probe has produced its hop (parsed or synthesized).
Discovered ==
    {unit[g].ttl : g \in {x \in TTLs : unit[x].pc \notin {"idle", "probing", "killed"}}}

\* Mutant of KillInFlight: exec.Command, the processes are not bound to ctx.
KillInFlightNone(u) == u

\* cmd := exec.CommandContext(ctx, ...): when ctx is done the process of every
\* probe still running is killed; cmd.Output() has yet to return.
KillInFlight(u) ==
    [g \in TTLs |-> IF u[g].pc = "probing" THEN [u[g] EXCEPT !.pc = "killed"]
                                           ELSE u[g]]

\* runSequential: exec.CommandContext(ctx, ...), and cmd.Process.Kill()
KillProc(p) == IF p = "running" THEN "killed" ELSE p

\* the variables of runParallel that a cancellation leaves alone
parVarsButUnit == <<ttl, results, gotResult, emitted, wg, trueFinalTTL, i,
                    writers, reads>>

\* cancel() of the context handed to Run
Cancel ==
    /\ pc # "returned"
    /\ ~cancelled
    /\ cancelled' = TRUE
    /\ unit' = KillInFlight(unit)
    /\ proc' = KillProc(proc)
    /\ UNCHANGED <<pc, strategy, outcome, consumer, maxHops, destIPs, destIP,
                   sent, knownAtCancel, sentAtCancel, toolAvailable, chanClosed>>
    /\ UNCHANGED parVarsButUnit
    /\ UNCHANGED seqVars
    /\ UNCHANGED benchVars

\* cancel(), with the moment of cancellation recorded in the history variables
CancelObserved ==
    /\ pc # "returned"
    /\ ~cancelled
    /\ cancelled' = TRUE
    /\ knownAtCancel' = Discovered
    /\ sentAtCancel' = Len(sent)
    /\ unit' = KillInFlight(unit)
    /\ proc' = KillProc(proc)
    /\ UNCHANGED <<pc, strategy, outcome, consumer, maxHops, destIPs, destIP,
                   sent, toolAvailable, chanClosed>>
    /\ UNCHANGED parVarsButUnit
    /\ UNCHANGED seqVars
    /\ UNCHANGED benchVars

\* The consumer stops receiving from the channel (and its buffer is full).  The
\* engine observes the consumer only at a send, so that is where it stops.
ConsumerStop ==
    /\ pc \in {"emit", "seqSend"}
    /\ consumer = "receiving"
    /\ consumer' = "stopped"
    /\ UNCHANGED <<pc, strategy, outcome, cancelled, knownAtCancel, sentAtCancel,
                   maxHops, destIPs, destIP, sent>>
    /\ UNCHANGED parVars
    /\ UNCHANGED seqVars
    /\ UNCHANGED appVars
    /\ UNCHANGED benchVars

-----------------------------------------------------------------------------
(* runParallel *)

\* Run, then runParallel up to the launch loop.
RunParallel ==
    /\ pc = "start"
    /\ \E goos \in GOOS \ {"windows"}, lookPathOK \in BOOLEAN, dest \in Dests :
          /\ toolAvailable' = IF ToolInstalled(goos, lookPathOK) THEN "yes" ELSE "no"
          /\ IF ~tracerouteBinary(goos, lookPathOK)
             THEN /\ pc' = "returned"
                  /\ outcome' = "error"
                  /\ UNCHANGED <<destIPs, destIP, ttl>>
             ELSE \* make([]Hop, opts.MaxHops) panics on a negative length
                  /\ pc' = IF maxHops < 0 THEN "panicked" ELSE "launch"
                  /\ outcome' = outcome
                  /\ destIPs' \in resolveIPs(dest)
                  /\ destIP' \in resolveIP(dest)
                  /\ ttl' = IF maxHops < 0 THEN ttl ELSE 1
    /\ strategy' = "parallel"
    /\ UNCHANGED <<proc, chanClosed>>
    /\ UNCHANGED <<maxHops, sent, unit, results, gotResult, emitted, wg,
                   trueFinalTTL, i, writers, reads>>
    /\ UNCHANGED envVars
    /\ UNCHANGED seqVars
    /\ UNCHANGED benchVars

\* for ttl := 1; ttl <= opts.MaxHops; ttl++ { ... wg.Add(1); go func(ttl) }
Launch ==
    /\ pc = "launch"
    /\ ttl <= maxHops
    /\ ~cancelled
    /\ wg' = wg + 1
    /\ unit' = [unit EXCEPT ![ttl] = [pc |-> "probing", ttl |-> ttl, hop |-> ZeroHop]]
    /\ ttl' = ttl + 1
    /\ UNCHANGED <<pc, strategy, outcome, maxHops, destIPs, destIP, sent,
                   results, gotResult, emitted, trueFinalTTL, i, writers, reads>>
    /\ UNCHANGED envVars
    /\ UNCHANGED seqVars
    /\ UNCHANGED appVars
    /\ UNCHANGED benchVars

\* the loop ends: ttl > opts.MaxHops, or ctx.Err() != nil
LaunchEnd ==
    /\ pc = "launch"
    /\ (ttl > maxHops \/ cancelled)
    /\ pc' = "wait"
    /\ UNCHANGED <<strategy, outcome, maxHops, destIPs, destIP, sent>>
    /\ UNCHANGED parVars
    /\ UNCHANGED envVars
    /\ UNCHANGED seqVars
    /\ UNCHANGED appVars
    /\ UNCHANGED benchVars

\* Mutant of ProbeTTLs: the probe is started without "-f ttl", so the tool
\* reports every distance from 1 up to t.
ProbeTTLsFromOne(t) == 1 .. t

\* The TTLs the tool can report when asked for exactly distance t (-f t -m t).
ProbeTTLs(t) == {t}

\* What cmd.Output() can return for the probe of distance t: nothing (the
\* process failed or was killed), banners only, or one hop line.
ProbeOutputs(t) ==
    {<<>>, <<UnixHeaderLine>>, <<BlankLine, WarningLine>>}
    \cup {<<UnixHeaderLine, UnixTimeoutLine(p)>> : p \in ProbeTTLs(t)}
    \cup {<<UnixHeaderLine, UnixStarFirstLine(p, a, r)>> :
             p \in ProbeTTLs(t), a \in IPs, r \in RTTs}
    \cup {<<UnixHeaderLine, UnixNumericLine(p, a, r)>> :
             p \in ProbeTTLs(t), a \in IPs, r \in RTTs}

\* The first line of out that parses, ZeroHop when none does.
RECURSIVE FirstHop(_, _)
FirstHop(out, dIP) ==
    IF out = <<>> THEN ZeroHop
    ELSE LET line == Head(out)
         IN  IF line = BlankLine \/ HasPrefixWord(line, "traceroute")
             THEN FirstHop(Tail(out), dIP)
             ELSE IF parseUnixLine(line, dIP).ok
                  THEN parseUnixLine(line, dIP).hop
                  ELSE FirstHop(Tail(out), dIP)

\* Mutant of SynthTimeout: the TTL is left out of the synthesized hop.
SynthTimeoutNoTTL(t) == Hop(0, "", "", 0, FALSE, FALSE, TRUE)

\* hop = Hop{TTL: ttl, Success: false, IsTimeout: true}
SynthTimeout(t) == Hop(t, "", "", 0, FALSE, FALSE, TRUE)

\* Mutant of SlotOf: an index one too low, clamped at the first slot.
SlotOfClamped(t) == IF t > 1 THEN t - 2 ELSE 0

\* idx := ttl - 1
SlotOf(t) == t - 1

\* if hop.Success && hop.Hostname == "" && hop.IP != ""
NeedsLookup(h) == h.Success /\ h.Hostname = "" /\ h.IP # ""

\* Mutant of ProbeHop: no hop is synthesized when nothing was parsed.
ProbeHopNoSynth(out, t, dIP) == FirstHop(out, dIP)

\* The hop a probe goroutine makes of the output of its process:
\* if hop.TTL == 0 { hop = Hop{TTL: ttl, Success: false, IsTimeout: true} }
ProbeHop(out, t, dIP) ==
    LET parsed == FirstHop(out, dIP)
    IN  IF parsed.TTL = 0 THEN SynthTimeout(t) ELSE parsed

\* cmd.Output() returns; the output is parsed; a hop is synthesized if needed.
ProbeExit(g) ==
    /\ unit[g].pc \in {"probing", "killed"}
    /\ \E out \in ProbeOutputs(unit[g].ttl) :
          LET hop == ProbeHop(out, unit[g].ttl, destIP)
          IN  unit' = [unit EXCEPT ![g].hop = hop,
                                   ![g].pc = IF NeedsLookup(hop) THEN "lookup"
                                                                 ELSE "storing"]
    /\ UNCHANGED <<pc, strategy, outcome, maxHops, destIPs, destIP, sent, ttl,
                   results, gotResult, emitted, wg, trueFinalTTL, i, writers, reads>>
    /\ UNCHANGED envVars
    /\ UNCHANGED seqVars
    /\ UNCHANGED appVars
    /\ UNCHANGED benchVars

\* net.LookupAddr(hop.IP) returns: a name, or an error / no name
Lookup(g) ==
    /\ unit[g].pc = "lookup"
    /\ \E name \in {"", RdnsName} :
          unit' = [unit EXCEPT ![g].pc = "storing",
                               ![g].hop.Hostname =
                                    IF name # "" THEN name ELSE unit[g].hop.Hostname]
    /\ UNCHANGED <<pc, strategy, outcome, maxHops, destIPs, destIP, sent, ttl,
                   results, gotResult, emitted, wg, trueFinalTTL, i, writers, reads>>
    /\ UNCHANGED envVars
    /\ UNCHANGED seqVars
    /\ UNCHANGED appVars
    /\ UNCHANGED benchVars

\* Mutant of EmittedCap: make(chan int, opts.MaxHops-1)
EmittedCapShort == maxHops - 1

\* emitted := make(chan int, opts.MaxHops)
EmittedCap == maxHops

\* results[idx] = hop; gotResult[idx].Store(true); then
\* select { case emitted <- idx: case <-ctx.Done(): } and the deferred wg.Done().
\* A unit whose select cannot proceed waits in "announcing" and retries.
Store(g) ==
    /\ unit[g].pc \in {"storing", "announcing"}
    /\ LET idx == SlotOf(unit[g].ttl)
       IN  IF unit[g].pc = "storing"
           THEN /\ idx \in Slots
                /\ results' = [results EXCEPT ![idx] = unit[g].hop]
                /\ gotResult' = [gotResult EXCEPT ![idx] = TRUE]
                /\ writers' = [writers EXCEPT ![idx] = Append(@, unit[g].ttl)]
           ELSE UNCHANGED <<results, gotResult, writers>>
    /\ IF emitted < EmittedCap \/ cancelled
       THEN /\ \/ /\ emitted < EmittedCap
                  /\ emitted' = emitted + 1
               \/ /\ cancelled
                  /\ emitted' = emitted
            /\ wg' = wg - 1
            /\ unit' = [unit EXCEPT ![g].pc = "done", ![g].hop = ZeroHop]
       ELSE /\ unit' = [unit EXCEPT ![g].pc = "announcing", ![g].hop = ZeroHop]
            /\ UNCHANGED <<emitted, wg>>
    /\ UNCHANGED <<pc, strategy, outcome, maxHops, destIPs, destIP, sent, ttl,
                   trueFinalTTL, i, reads>>
    /\ UNCHANGED envVars
    /\ UNCHANGED seqVars
    /\ UNCHANGED appVars
    /\ UNCHANGED benchVars

-----------------------------------------------------------------------------
(* runParallel: the collector *)

\* Mutant of WaitDone: the collector does not wait for the probes.
WaitDoneNoBarrier == TRUE

\* wg.Wait() returns
WaitDone == wg = 0

\* Mutant of LooksFinal: an empty address set matches every address.
LooksFinalEmptyMatches(h, dIPs) ==
    h.Success /\ (h.IsFinal \/ dIPs = {} \/ h.IP \in dIPs)

\* Mutant of LooksFinal: only the parser's flag is trusted.
LooksFinalParserOnly(h, dIPs) == h.Success /\ h.IsFinal

\* h.Success && (h.IsFinal || (len(destIPs) > 0 && destIPs[h.IP]))
LooksFinal(h, dIPs) ==
    h.Success /\ (h.IsFinal \/ (Cardinality(dIPs) > 0 /\ h.IP \in dIPs))

\* The loop that finds trueFinalTTL, from index k: the index where it breaks,
\* n when it runs to the end.
RECURSIVE FindBreak(_, _, _, _, _)
FindBreak(res, got, dIPs, n, k) ==
    IF k >= n THEN n
    ELSE IF got[k] /\ LooksFinal(res[k], dIPs) THEN k
    ELSE FindBreak(res, got, dIPs, n, k + 1)

FindTrueFinal(res, got, dIPs, n) ==
    LET k == FindBreak(res, got, dIPs, n, 0)
    IN  IF k < n THEN res[k].TTL ELSE 0

\* wg.Wait(); close(emitted); for range emitted {}; then the search.
Reconcile ==
    /\ pc = "wait"
    /\ WaitDone
    /\ emitted' = 0
    /\ trueFinalTTL' = FindTrueFinal(results, gotResult, destIPs, maxHops)
    /\ reads' = reads \cup
          {k \in Slots : /\ k < maxHops
                         /\ gotResult[k]
                         /\ k <= FindBreak(results, gotResult, destIPs, maxHops, 0)}
    /\ i' = 0
    /\ pc' = IF maxHops > 0 THEN "emit" ELSE "finish"
    /\ UNCHANGED <<strategy, outcome, maxHops, destIPs, destIP, sent, ttl, unit,
                   results, gotResult, wg, writers>>
    /\ UNCHANGED envVars
    /\ UNCHANGED seqVars
    /\ UNCHANGED appVars
    /\ UNCHANGED benchVars

\* hop.IsFinal = (trueFinalTTL > 0 && hop.TTL == trueFinalTTL)
CorrectedFinal(h, tf) == tf > 0 /\ h.TTL = tf

\* Mutant of Reconciled: the hop is rebuilt from its TTL, address and flags.
ReconciledRebuilt(h, tf) ==
    Hop(h.TTL, h.IP, "", 0, h.Success, CorrectedFinal(h, tf), h.IsTimeout)

\* hop := results[i]; hop.IsFinal = (trueFinalTTL > 0 && hop.TTL == trueFinalTTL)
Reconciled(h, tf) == [h EXCEPT !.IsFinal = CorrectedFinal(h, tf)]

\* Mutant of EmitBreak: the emission loop does not stop at the final hop.
EmitBreakNever(h) == FALSE

\* if hop.IsFinal { break }
EmitBreak(h) == h.IsFinal

\* Mutant of AfterEmit: the emission loop ends one slot early.
AfterEmitShort(k, break) == IF break \/ k + 2 >= maxHops THEN "finish" ELSE "emit"

\* the pc after iteration k of the emission loop
AfterEmit(k, break) == IF break \/ k + 1 >= maxHops THEN "finish" ELSE "emit"

\* if !gotResult[i].Load() { continue }
EmitSkip ==
    /\ pc = "emit"
    /\ ~gotResult[i]
    /\ i' = i + 1
    /\ pc' = AfterEmit(i, FALSE)
    /\ UNCHANGED <<strategy, outcome, maxHops, destIPs, destIP, sent, ttl, unit,
                   results, gotResult, emitted, wg, trueFinalTTL, writers, reads>>
    /\ UNCHANGED envVars
    /\ UNCHANGED seqVars
    /\ UNCHANGED appVars
    /\ UNCHANGED benchVars

\* select { case hops <- hop: ... }: the send proceeds
EmitSend ==
    /\ pc = "emit"
    /\ gotResult[i]
    /\ consumer = "receiving"
    /\ LET hop == Reconciled(results[i], trueFinalTTL)
       IN  /\ sent' = Append(sent, hop)
           /\ pc' = AfterEmit(i, EmitBreak(hop))
    /\ i' = i + 1
    /\ reads' = reads \cup {i}
    /\ UNCHANGED <<strategy, outcome, maxHops, destIPs, destIP, ttl, unit,
                   results, gotResult, emitted, wg, trueFinalTTL, writers>>
    /\ UNCHANGED envVars
    /\ UNCHANGED seqVars
    /\ UNCHANGED appVars
    /\ UNCHANGED benchVars

\* select { ... case <-ctx.Done(): return nil }
EmitCancelled ==
    /\ pc = "emit"
    /\ gotResult[i]
    /\ cancelled
    /\ pc' = "returned"
    /\ outcome' = "nil"
    /\ reads' = reads \cup {i}
    /\ UNCHANGED <<strategy, maxHops, destIPs, destIP, sent, ttl, unit,
                   results, gotResult, emitted, wg, trueFinalTTL, i, writers>>
    /\ UNCHANGED envVars
    /\ UNCHANGED seqVars
    /\ UNCHANGED appVars
    /\ UNCHANGED benchVars

\* Mutant of ParallelOutcome: the exhausted budget is not reported.
ParallelOutcomeNil(ctxErr, tf) == "nil"

\* if ctx.Err() != nil { return nil }; if trueFinalTTL == 0 { return
\* ErrMaxHopsReached }; return nil
ParallelOutcome(ctxErr, tf) ==
    IF ctxErr THEN "nil"
    ELSE IF tf = 0 THEN "ErrMaxHopsReached"
    ELSE "nil"

Finish ==
    /\ pc = "finish"
    /\ pc' = "returned"
    /\ outcome' = ParallelOutcome(cancelled, trueFinalTTL)
    /\ UNCHANGED <<strategy, maxHops, destIPs, destIP, sent>>
    /\ UNCHANGED parVars
    /\ UNCHANGED envVars
    /\ UNCHANGED seqVars
    /\ UNCHANGED appVars
    /\ UNCHANGED benchVars

-----------------------------------------------------------------------------
(* runSequential *)

\* Run on windows, then runSequential up to the scan loop.  cmd.Start() fails
\* when the binary cannot be started and when ctx is already done.
RunSequential ==
    /\ pc = "start"
    /\ \E startOK \in BOOLEAN, dest \in Dests :
          /\ toolAvailable' = IF startOK THEN "yes" ELSE "no"
          /\ IF cancelled \/ ~startOK
             THEN /\ pc' = "returned"
                  /\ outcome' = "error"
                  /\ UNCHANGED <<destIP, procTTL, proc>>
             ELSE /\ pc' = "seqScan"
                  /\ outcome' = outcome
                  /\ destIP' \in resolveIP(dest)
                  /\ procTTL' = 1
                  /\ proc' = "running"
    /\ strategy' = "sequential"
    /\ chanClosed' = chanClosed
    /\ UNCHANGED <<maxHops, destIPs, sent, pending, lastTTL, reachedDest>>
    /\ UNCHANGED parVars
    /\ UNCHANGED envVars
    /\ UNCHANGED benchVars

\* The lines tracert can print next when the next hop to report is t: a banner,
\* or the line of hop t (-h opts.MaxHops: no hop beyond it).
SeqLines(t) ==
    {WinHeaderLine, BlankLine, WinTrailerLine}
    \cup (IF t <= maxHops
          THEN {WinTimeoutLine(t)}
               \cup {WinHopLine(t, a, r) : a \in IPs, r \in RTTs}
               \cup {WinStarFirstLine(t, a, r) : a \in IPs, r \in RTTs}
               \cup {WinStarLaterLine(t, a, r) : a \in IPs, r \in RTTs}
          ELSE {})

\* line == "" || HasPrefix(TrimSpace(line), "traceroute") || HasPrefix(.., "Tracing")
SeqSkipped(line) ==
    line = BlankLine \/ HasPrefixWord(line, "traceroute") \/ HasPrefixWord(line, "Tracing")

\* scanner.Scan() returns true: one iteration of the loop up to the send.
SeqScan ==
    /\ pc = "seqScan"
    /\ \E line \in SeqLines(procTTL) :
          LET p == parseWindowsLine(line, destIP)
          IN  IF cancelled
              THEN \* case <-ctx.Done(): cmd.Process.Kill(); return nil
                   /\ pc' = "returned"
                   /\ outcome' = "nil"
                   /\ proc' = KillProc(proc)
                   /\ UNCHANGED <<procTTL, pending>>
              ELSE IF SeqSkipped(line) \/ ~p.ok
              THEN \* continue
                   /\ UNCHANGED <<pc, outcome, procTTL, pending, proc>>
              ELSE \* hops <- hop is reached
                   /\ pc' = "seqSend"
                   /\ pending' = p.hop
                   /\ procTTL' = procTTL + 1
                   /\ outcome' = outcome
                   /\ proc' = proc
    /\ UNCHANGED <<strategy, maxHops, destIPs, destIP, sent, lastTTL, reachedDest,
                   toolAvailable, chanClosed>>
    /\ UNCHANGED parVars
    /\ UNCHANGED envVars
    /\ UNCHANGED benchVars

\* scanner.Scan() returns false: the tool closed its output (it finished, it
\* failed, or it was killed with the context).
SeqEOF ==
    /\ pc = "seqScan"
    /\ pc' = "seqWait"
    /\ UNCHANGED <<strategy, outcome, maxHops, destIPs, destIP, sent>>
    /\ UNCHANGED seqVars
    /\ UNCHANGED parVars
    /\ UNCHANGED envVars
    /\ UNCHANGED appVars
    /\ UNCHANGED benchVars

\* Mutant of SeqBreak: the scan loop does not stop at a final hop.
SeqBreakNever(h) == FALSE

\* if hop.IsFinal { reachedDest = true; break }
SeqBreak(h) == h.IsFinal

\* hops <- hop proceeds; then the rest of the iteration
SeqSend ==
    /\ pc = "seqSend"
    /\ consumer = "receiving"
    /\ sent' = Append(sent, pending)
    /\ lastTTL' = IF pending.TTL > lastTTL THEN pending.TTL ELSE lastTTL
    /\ reachedDest' = (reachedDest \/ SeqBreak(pending))
    /\ pc' = IF SeqBreak(pending) THEN "seqWait" ELSE "seqScan"
    /\ UNCHANGED <<strategy, outcome, maxHops, destIPs, destIP, procTTL, pending>>
    /\ UNCHANGED parVars
    /\ UNCHANGED envVars
    /\ UNCHANGED appVars
    /\ UNCHANGED benchVars

\* if !reachedDest && lastTTL >= opts.MaxHops { return ErrMaxHopsReached }; return nil
SequentialOutcome(reached, last, n) ==
    IF ~reached /\ last >= n THEN "ErrMaxHopsReached" ELSE "nil"

\* Mutant of AfterWait: Run returns without cmd.Wait().
AfterWaitSkipped(p) == p

\* _ = cmd.Wait(): it returns once the process is gone
AfterWait(p) == IF p = "running" THEN "exited" ELSE p

\* cmd.Wait() returns, then the result
SeqReturn ==
    /\ pc = "seqWait"
    /\ pc' = "returned"
    /\ outcome' = SequentialOutcome(reachedDest, lastTTL, maxHops)
    /\ proc' = AfterWait(proc)
    /\ UNCHANGED <<toolAvailable, chanClosed>>
    /\ UNCHANGED <<strategy, maxHops, destIPs, destIP, sent>>
    /\ UNCHANGED seqVars
    /\ UNCHANGED parVars
    /\ UNCHANGED envVars
    /\ UNCHANGED benchVars

-----------------------------------------------------------------------------
(* Specifications *)

\* every step of Run, of its goroutines, of the tools and of the consumer
Step ==
    \/ ConsumerStop
    \/ RunParallel
    \/ Launch
    \/ LaunchEnd
    \/ \E g \in TTLs : ProbeExit(g)
    \/ \E g \in TTLs : Lookup(g)
    \/ \E g \in TTLs : Store(g)
    \/ Reconcile
    \/ EmitSkip
    \/ EmitSend
    \/ EmitCancelled
    \/ Finish
    \/ RunSequential
    \/ SeqScan
    \/ SeqEOF
    \/ SeqSend
    \/ SeqReturn

Next == Cancel \/ Step

Spec == Init /\ [][Next]_vars

\* Run called with any Options: opts.MaxHops negative, zero or positive.
MaxHopsValues == -1 .. MaxHopsBound

InitAnyOptions == maxHops \in MaxHopsValues /\ EngineStart /\ BenchIdle

SpecAnyOptions == InitAnyOptions /\ [][Next]_vars

\* The same program, the moment of cancellation recorded.
NextObserved == CancelObserved \/ Step

SpecObserved == Init /\ [][NextObserved]_vars

\* The sequential strategy alone, with the fairness its scheduling gives: a
\* runnable goroutine runs, and the tool prints its next line or closes its
\* output.
SeqNext ==
    \/ Cancel
    \/ ConsumerStop
    \/ RunSequential
    \/ SeqScan
    \/ SeqEOF
    \/ SeqSend
    \/ SeqReturn

SpecSequentialFair ==
    /\ Init
    /\ [][SeqNext]_vars
    /\ WF_vars(RunSequential)
    /\ WF_vars(SeqScan \/ SeqEOF)
    /\ WF_vars(SeqSend)
    /\ WF_vars(SeqReturn)

\* The parallel strategy alone, with the fairness its scheduling gives: a
\* runnable goroutine runs and a started process ends.  net.LookupAddr is given
\* no fairness: it is not bound to ctx and may not answer.
ParNext ==
    \/ Cancel
    \/ ConsumerStop
    \/ RunParallel
    \/ Launch
    \/ LaunchEnd
    \/ \E g \in TTLs : ProbeExit(g)
    \/ \E g \in TTLs : Lookup(g)
    \/ \E g \in TTLs : Store(g)
    \/ Reconcile
    \/ EmitSkip
    \/ EmitSend
    \/ EmitCancelled
    \/ Finish

SpecParallelFair ==
    /\ Init
    /\ [][ParNext]_vars
    /\ WF_vars(RunParallel)
    /\ WF_vars(Launch \/ LaunchEnd)
    /\ \A g \in TTLs : WF_vars(ProbeExit(g)) /\ WF_vars(Store(g))
    /\ WF_vars(Reconcile)
    /\ WF_vars(EmitSkip \/ EmitSend \/ EmitCancelled)
    /\ WF_vars(Finish)

\* Mutant of AppMayClose: the App closes the channel without waiting for Run.
AppMayCloseAnyTime == TRUE

\* App.StartTraceroute: err := traceroute.Run(ctx, host, opts, hopChan) has
\* returned, so the goroutine is at close(hopChan)
AppMayClose == pc = "returned"

\* App.StartTraceroute: close(hopChan)
AppClose ==
    /\ AppMayClose
    /\ ~chanClosed
    /\ chanClosed' = TRUE
    /\ UNCHANGED <<pc, strategy, outcome, maxHops, destIPs, destIP, sent,
                   toolAvailable, proc>>
    /\ UNCHANGED parVars
    /\ UNCHANGED seqVars
    /\ UNCHANGED envVars
    /\ UNCHANGED benchVars

\* db.HopRecord{TTL: h.TTL, IP: h.IP, ...}: the record has no IsTimeout
HopRecordOf(h) ==
    [TTL |-> h.TTL, IP |-> h.IP, Hostname |-> h.Hostname, RTT |-> h.RTT,
     Success |-> h.Success, IsFinal |-> h.IsFinal]

\* a bool bound to an INTEGER column, and scanned back from it
IntOfBool(b) == IF b THEN 1 ELSE 0
BoolOfInt(n) == n # 0

\* stmt.Exec(traceID, h.TTL, h.IP, h.Hostname, h.RTT, h.Success, h.IsFinal)
RowOf(r) ==
    [ttl |-> r.TTL, ip |-> r.IP, hostname |-> r.Hostname, rtt |-> r.RTT,
     success |-> IntOfBool(r.Success), is_final |-> IntOfBool(r.IsFinal)]

\* rows.Scan(&h.TTL, &h.IP, &h.Hostname, &h.RTT, &h.Success, &h.IsFinal)
RecordOfRow(row) ==
    [TTL |-> row.ttl, IP |-> row.ip, Hostname |-> row.hostname, RTT |-> row.rtt,
     Success |-> BoolOfInt(row.success), IsFinal |-> BoolOfInt(row.is_final)]

\* SELECT ... FROM hops WHERE trace_id = ? ORDER BY ttl
OrderByTTL(rows) ==
    LET all == {rows[n] : n \in 1 .. Len(rows)}
    IN  [n \in 1 .. Cardinality(all) |->
            CHOOSE r \in all : Cardinality({q \in all : q.ttl < r.ttl}) = n - 1]

\* Mutant of HopDataOf: a loaded hop is never shown as timed out.
HopDataOfNoTimeout(r) ==
    Hop(r.TTL, r.IP, r.Hostname, r.RTT, r.Success, r.IsFinal, FALSE)

\* handleLoadTrace: { ttl: h.ttl, ..., isFinal: h.isFinal, isTimeout: !h.success }
HopDataOf(r) ==
    Hop(r.TTL, r.IP, r.Hostname, r.RTT, r.Success, r.IsFinal, ~r.Success)

\* App.StartTraceroute after close(hopChan): the hops collected so far (the
\* collecting goroutine may not have drained the channel yet) are saved when
\* there is one; SaveTrace commits every row or, on an error, none.
AppSave ==
    /\ chanClosed
    /\ saveState = "none"
    /\ \E n \in 0 .. Len(sent), saveOK \in BOOLEAN :
          LET collected == SubSeq(sent, 1, n)
          IN  IF n = 0
              THEN saveState' = "skipped" /\ dbRows' = dbRows
              ELSE IF ~saveOK
              THEN saveState' = "failed" /\ dbRows' = dbRows
              ELSE /\ saveState' = "saved"
                   /\ dbRows' = [k \in 1 .. n |-> RowOf(HopRecordOf(collected[k]))]
    /\ UNCHANGED <<engineVars, parseVars, cmd, shown, handleVars, uiVars,
                   saveVars, eventVars>>

\* App.GetTrace(id), then handleLoadTrace in the front end
LoadTrace ==
    /\ saveState = "saved"
    /\ shown = <<>>
    /\ LET records == OrderByTTL(dbRows)
       IN  shown' = [n \in 1 .. Len(records) |-> HopDataOf(RecordOfRow(records[n]))]
    /\ UNCHANGED <<engineVars, parseVars, cmd, saveState, dbRows, handleVars,
                   uiVars, saveVars, eventVars>>

\* Run called by App.StartTraceroute, which owns the hop channel.
AppNext == Next \/ AppClose \/ AppSave \/ LoadTrace

SpecApp == Init /\ [][AppNext]_vars

-----------------------------------------------------------------------------
(* db.SaveTrace, statement by statement *)

\* the hop records handed to SaveTrace: a timed-out hop and the final hop
SaveRecords ==
    {HopRecordOf(SynthTimeout(1)),
     HopRecordOf(Hop(2, Dest1, "", 12, TRUE, TRUE, FALSE))}

SaveInputs == UNION {[1 .. n -> SaveRecords] : n \in 0 .. MaxSaveHops}

\* hopCount, timeoutCount and totalRTT as the first loop of SaveTrace counts
\* them; totalRTT is the RTT of the last final hop that succeeded
Summary(hops) ==
    LET ok    == {k \in 1 .. Len(hops) : hops[k].Success}
        final == {k \in ok : hops[k].IsFinal}
        last  == CHOOSE k \in final : \A j \in final : j <= k
    IN  [hop_count |-> Cardinality(ok),
         timeout_count |-> Len(hops) - Cardinality(ok),
         total_rtt |-> IF final = {} THEN 0 ELSE hops[last].RTT]

\* INSERT INTO traces (...): id is AUTOINCREMENT
TraceRowOf(id, hops) ==
    [id |-> id, hop_count |-> Summary(hops).hop_count,
     timeout_count |-> Summary(hops).timeout_count,
     total_rtt |-> Summary(hops).total_rtt]

\* INSERT INTO hops (trace_id, ttl, ip, hostname, rtt, success, is_final)
HopRowOf(id, r) == [trace_id |-> id, row |-> RowOf(r)]

\* Mutant of AfterRollback: the statements ran on d.conn, outside a
\* transaction, so what they wrote stays.
AfterRollbackKeeps(before, work) == work

\* defer tx.Rollback(): the tables are what they were at Begin
AfterRollback(before, work) == before

\* the call returns an error after the transaction has begun
SaveFails(id) ==
    /\ saveTx' = [saveTx EXCEPT !.pc = "returned", !.err = TRUE, !.id = id]
    /\ stored' = AfterRollback(saveTx.before, saveTx.work)

\* SaveTrace is called; tx, err := d.conn.Begin()
SaveBegin ==
    /\ saveTx.pc \in {"idle", "returned"}
    /\ Len(stored.traces) < MaxSaves
    /\ \E hops \in SaveInputs, ok \in BOOLEAN :
          saveTx' = IF ok
                    THEN [pc |-> "insertTrace", hops |-> hops, before |-> stored,
                          work |-> stored, id |-> 0, k |-> 0, err |-> FALSE]
                    ELSE [pc |-> "returned", hops |-> hops, before |-> stored,
                          work |-> stored, id |-> 0, k |-> 0, err |-> TRUE]
    /\ stored' = stored
    /\ UNCHANGED <<engineVars, parseVars, cmd, dbVars, handleVars, uiVars,
                   eventVars>>

\* tx.Exec(INSERT INTO traces ...); res.LastInsertId()
SaveInsertTrace ==
    /\ saveTx.pc = "insertTrace"
    /\ \E ok \in BOOLEAN :
          IF ok
          THEN LET id == Len(saveTx.work.traces) + 1
               IN  /\ saveTx' = [saveTx EXCEPT
                          !.pc = "prepare", !.id = id,
                          !.work.traces = Append(@, TraceRowOf(id, saveTx.hops))]
                   /\ stored' = stored
          ELSE SaveFails(0)
    /\ UNCHANGED <<engineVars, parseVars, cmd, dbVars, handleVars, uiVars,
                   eventVars>>

\* tx.Prepare(INSERT INTO hops ...)
SavePrepare ==
    /\ saveTx.pc = "prepare"
    /\ \E ok \in BOOLEAN :
          IF ok
          THEN saveTx' = [saveTx EXCEPT !.pc = "insertHop"] /\ stored' = stored
          ELSE SaveFails(0)
    /\ UNCHANGED <<engineVars, parseVars, cmd, dbVars, handleVars, uiVars,
                   eventVars>>

\* for _, h := range hops { stmt.Exec(traceID, h.TTL, ...) }
SaveInsertHop ==
    /\ saveTx.pc = "insertHop"
    /\ saveTx.k < Len(saveTx.hops)
    /\ \E ok \in BOOLEAN :
          IF ok
          THEN /\ saveTx' = [saveTx EXCEPT
                      !.k = @ + 1,
                      !.work.hops = Append(@, HopRowOf(saveTx.id,
                                                       saveTx.hops[saveTx.k + 1]))]
               /\ stored' = stored
          ELSE SaveFails(0)
    /\ UNCHANGED <<engineVars, parseVars, cmd, dbVars, handleVars, uiVars,
                   eventVars>>

\* return traceID, tx.Commit(): a commit that fails stores nothing
SaveCommit ==
    /\ saveTx.pc = "insertHop"
    /\ saveTx.k = Len(saveTx.hops)
    /\ \E ok \in BOOLEAN :
          IF ok
          THEN /\ saveTx' = [saveTx EXCEPT !.pc = "returned"]
               /\ stored' = saveTx.work
          ELSE SaveFails(saveTx.id)
    /\ UNCHANGED <<engineVars, parseVars, cmd, dbVars, handleVars, uiVars,
                   eventVars>>

SaveNext ==
    SaveBegin \/ SaveInsertTrace \/ SavePrepare \/ SaveInsertHop \/ SaveCommit

SpecSave == Init /\ [][SaveNext]_vars

-----------------------------------------------------------------------------
(* The events between App.StartTraceroute and the front end *)

\* runtime.EventsEmit(a.ctx, name, ...) by a goroutine of run r
Emit(q, name, r) == Append(q, [name |-> name, run |-> r])

\* a.cancel(): the context of run r is cancelled (r = 0: a.cancel is nil)
CancelRun(runs, r) ==
    [x \in Runs |-> IF x = r THEN [runs[x] EXCEPT !.cancelled = TRUE] ELSE runs[x]]

\* teardownListeners(): offHop, offDone, offError, offMaxHops, offSaved
Teardown(f) == [f EXCEPT !.listening = FALSE]

\* handleStart up to the await: teardownListeners(), the resets,
\* setState('running'), the five EventsOn, and the call of StartTraceroute.
\* The Trace button and the input are offered when state is not 'running'.
FeHandleStart ==
    /\ fe.state # "running"
    /\ ~fe.stopping
    /\ fe.run < MaxRuns
    /\ fe' = [fe EXCEPT !.state = "running", !.listening = TRUE, !.run = @ + 1,
                        !.stale = ""]
    /\ goApp' = [goApp EXCEPT !.calls = @ + 1]
    /\ UNCHANGED <<goRuns, events>>
    /\ UNCHANGED <<engineVars, parseVars, cmd, dbVars, handleVars, uiVars, saveVars>>

\* App.StartTraceroute: the previous run is cancelled, a.cancel is replaced,
\* and the two goroutines of the new run are started
GoStartTraceroute ==
    /\ goApp.calls > 0
    /\ LET r == goApp.started + 1
       IN  /\ goRuns' = [CancelRun(goRuns, goApp.current) EXCEPT
                            ![r] = [NoRun EXCEPT !.runner = "running",
                                                 !.consumer = "receiving"]]
           /\ goApp' = [calls |-> goApp.calls - 1, started |-> r, current |-> r]
    /\ UNCHANGED <<fe, events>>
    /\ UNCHANGED <<engineVars, parseVars, cmd, dbVars, handleVars, uiVars, saveVars>>

\* handleStop up to its await, and App.StopTraceroute: a.cancel() and
\* a.cancel = nil.  The Stop button is offered when state is 'running'.
FeHandleStop ==
    /\ fe.state = "running"
    /\ ~fe.stopping
    /\ goApp.calls = 0
    /\ fe' = [fe EXCEPT !.stopping = TRUE]
    /\ goRuns' = CancelRun(goRuns, goApp.current)
    /\ goApp' = [goApp EXCEPT !.current = 0]
    /\ UNCHANGED events
    /\ UNCHANGED <<engineVars, parseVars, cmd, dbVars, handleVars, uiVars, saveVars>>

\* handleStop after its await: setState('done'); teardownListeners()
FeStopReturned ==
    /\ fe.stopping
    /\ fe' = [Teardown(fe) EXCEPT !.state = "done", !.stopping = FALSE]
    /\ UNCHANGED <<goRuns, goApp, events>>
    /\ UNCHANGED <<engineVars, parseVars, cmd, dbVars, handleVars, uiVars, saveVars>>

\* traceroute.Run sends a hop on hopChan (capacity 64)
GoRunSend(r) ==
    /\ goRuns[r].runner = "running"
    /\ ~goRuns[r].cancelled
    /\ goRuns[r].produced < MaxRunHops
    /\ goRuns' = [goRuns EXCEPT ![r].chan = @ + 1, ![r].produced = @ + 1]
    /\ UNCHANGED <<fe, goApp, events>>
    /\ UNCHANGED <<engineVars, parseVars, cmd, dbVars, handleVars, uiVars, saveVars>>

\* err := traceroute.Run(...) returns; close(hopChan).  Run returns another
\* error than ErrMaxHopsReached only before it has sent a hop.
GoRunReturn(r) ==
    /\ goRuns[r].runner = "running"
    /\ \E err \in {"nil", "ErrMaxHopsReached"}
                  \cup (IF goRuns[r].produced = 0 THEN {"error"} ELSE {}) :
          goRuns' = [goRuns EXCEPT ![r].runner = "save", ![r].outcome = err]
    /\ UNCHANGED <<fe, goApp, events>>
    /\ UNCHANGED <<engineVars, parseVars, cmd, dbVars, handleVars, uiVars, saveVars>>

\* if a.db != nil && len(collected) > 0 { SaveTrace; EventsEmit("traceroute:saved") }
GoSave(r) ==
    /\ goRuns[r].runner = "save"
    /\ \E saveOK \in BOOLEAN :
          IF goRuns[r].collected > 0 /\ saveOK
          THEN /\ events' = Emit(events, "traceroute:saved", r)
               /\ goRuns' = [goRuns EXCEPT ![r].runner = "outcome", ![r].saved = TRUE]
          ELSE /\ events' = events
               /\ goRuns' = [goRuns EXCEPT ![r].runner = "outcome"]
    /\ UNCHANGED <<fe, goApp>>
    /\ UNCHANGED <<engineVars, parseVars, cmd, dbVars, handleVars, uiVars, saveVars>>

\* if err == ErrMaxHopsReached { EventsEmit("traceroute:maxhops") }
\* else if err != nil { EventsEmit("traceroute:error") }
GoEmitOutcome(r) ==
    /\ goRuns[r].runner = "outcome"
    /\ events' = IF goRuns[r].outcome = "ErrMaxHopsReached"
                 THEN Emit(events, "traceroute:maxhops", r)
                 ELSE IF goRuns[r].outcome # "nil"
                 THEN Emit(events, "traceroute:error", r)
                 ELSE events
    /\ goRuns' = [goRuns EXCEPT ![r].runner = "done"]
    /\ UNCHANGED <<fe, goApp>>
    /\ UNCHANGED <<engineVars, parseVars, cmd, dbVars, handleVars, uiVars, saveVars>>

\* for hop := range hopChan { collected = append(...); EventsEmit("hop", hop) }
GoConsumeHop(r) ==
    /\ goRuns[r].consumer = "receiving"
    /\ goRuns[r].chan > 0
    /\ goRuns' = [goRuns EXCEPT ![r].chan = @ - 1, ![r].collected = @ + 1]
    /\ events' = Emit(events, "hop", r)
    /\ UNCHANGED <<fe, goApp>>
    /\ UNCHANGED <<engineVars, parseVars, cmd, dbVars, handleVars, uiVars, saveVars>>

\* the range loop ends on the closed, drained channel:
\* EventsEmit("traceroute:done")
GoConsumeDone(r) ==
    /\ goRuns[r].consumer = "receiving"
    /\ goRuns[r].chan = 0
    /\ goRuns[r].runner \in {"save", "outcome", "done"}
    /\ goRuns' = [goRuns EXCEPT ![r].consumer = "done"]
    /\ events' = Emit(events, "traceroute:done", r)
    /\ UNCHANGED <<fe, goApp>>
    /\ UNCHANGED <<engineVars, parseVars, cmd, dbVars, handleVars, uiVars, saveVars>>

\* the names whose listener changes the state of the run shown
RunEvents == {"hop", "traceroute:done", "traceroute:maxhops", "traceroute:error"}

\* the listener registered for event e by handleStart
Listener(f, e) ==
    IF e.name = "traceroute:done" THEN [Teardown(f) EXCEPT !.state = "done"]
    ELSE IF e.name = "traceroute:error" THEN [Teardown(f) EXCEPT !.state = "error"]
    ELSE IF e.name = "traceroute:maxhops" THEN [Teardown(f) EXCEPT !.state = "maxhops"]
    ELSE IF e.name = "traceroute:saved" THEN [f EXCEPT !.savedTraceId = e.run]
    ELSE f

\* The next event reaches the front end: its listener runs if it is still
\* registered.  History: stale names the first event of an earlier run that
\* was applied after StartTraceroute had begun the run shown.
FeDeliver ==
    /\ events # <<>>
    /\ LET e == Head(events)
           isStale == /\ e.name \in RunEvents
                      /\ e.run # fe.run
                      /\ goApp.started >= fe.run
           seen == IF isStale /\ fe.stale = ""
                   THEN [fe EXCEPT !.stale = e.name]
                   ELSE fe
       IN  fe' = IF fe.listening THEN Listener(seen, e) ELSE fe
    /\ events' = Tail(events)
    /\ UNCHANGED <<goRuns, goApp>>
    /\ UNCHANGED <<engineVars, parseVars, cmd, dbVars, handleVars, uiVars, saveVars>>

EventsNext ==
    \/ FeHandleStart
    \/ GoStartTraceroute
    \/ FeHandleStop
    \/ FeStopReturned
    \/ \E r \in Runs : GoRunSend(r)
    \/ \E r \in Runs : GoRunReturn(r)
    \/ \E r \in Runs : GoSave(r)
    \/ \E r \in Runs : GoEmitOutcome(r)
    \/ \E r \in Runs : GoConsumeHop(r)
    \/ \E r \in Runs : GoConsumeDone(r)
    \/ FeDeliver

SpecEvents == Init /\ [][EventsNext]_vars

-----------------------------------------------------------------------------
(* The line parsers, called on their own *)

\* the hop numbers on the lines handed to the parsers: the first and the last
ParseTTLs == {1, MaxHopsBound}

\* the lines traceroute prints
UnixLines ==
    {UnixHeaderLine, WarningLine, BlankLine}
    \cup {UnixTimeoutLine(t) : t \in ParseTTLs}
    \cup UNION {{UnixNumericLine(t, a, r), UnixNamedLine(t, RdnsName, a, r),
                 UnixStarFirstLine(t, a, r), UnixStarNamedLine(t, a, r)} :
                    t \in ParseTTLs, a \in IPs, r \in RTTs}

\* the lines tracert prints
WinLines ==
    {WinHeaderLine, WinTrailerLine, BlankLine}
    \cup {WinTimeoutLine(t) : t \in ParseTTLs}
    \cup UNION {{WinHopLine(t, a, r), WinNamedLine(t, RdnsName, a, r),
                 WinStarFirstLine(t, a, r), WinStarLaterLine(t, a, r)} :
                    t \in ParseTTLs, a \in IPs, r \in RTTs}

ParseLines(parser) == IF parser = "unix" THEN UnixLines ELSE WinLines

\* the destIP arguments: none, or the address of the destination
ParseDests == {"", Dest1}

\* hop, ok := parseUnixLine(line, destIP) or parseWindowsLine(line, destIP);
\* the call before it may be the one that is remembered
ParseLine ==
    /\ \E parser \in {"unix", "windows"}, dIP \in ParseDests, remember \in BOOLEAN :
        \E line \in ParseLines(parser) :
          LET p    == IF parser = "unix" THEN parseUnixLine(line, dIP)
                                         ELSE parseWindowsLine(line, dIP)
              call == [parser |-> parser, line |-> line, dIP |-> dIP,
                       hop |-> p.hop, ok |-> p.ok]
          IN  /\ parseLast' = call
              /\ parseFirst' = IF remember THEN parseLast ELSE parseFirst
    /\ UNCHANGED engineVars
    /\ UNCHANGED <<cmd, dbVars, handleVars, uiVars, saveVars, eventVars>>

SpecParse == Init /\ [][ParseLine]_vars

-----------------------------------------------------------------------------
(* App: the handle of the current run *)

\* Mutant of MuFree: the methods do not take a.mu.
MuFreeAlways == TRUE

\* a.mu.Lock() can return
MuFree == mu = 0

\* the contexts left un-cancelled by a call of the cancel function c
AfterCancel(live, c) == live \ {c}

\* StartTraceroute: a.mu.Lock()
StartLock(t) ==
    /\ caller[t] = "idle"
    /\ created < MaxStarts
    /\ MuFree
    /\ mu' = t
    /\ caller' = [caller EXCEPT ![t] = "startCancel"]
    /\ UNCHANGED <<aCancel, liveCtx, created>>

\* StartTraceroute: if a.cancel != nil { a.cancel() }
StartCancelPrevious(t) ==
    /\ caller[t] = "startCancel"
    /\ liveCtx' = IF aCancel # 0 THEN AfterCancel(liveCtx, aCancel) ELSE liveCtx
    /\ caller' = [caller EXCEPT ![t] = "startNew"]
    /\ UNCHANGED <<mu, aCancel, created>>

\* StartTraceroute: ctx, cancel := context.WithCancel(a.ctx); a.cancel = cancel
StartNew(t) ==
    /\ caller[t] = "startNew"
    /\ created' = created + 1
    /\ liveCtx' = liveCtx \cup {created + 1}
    /\ aCancel' = created + 1
    /\ caller' = [caller EXCEPT ![t] = "startUnlock"]
    /\ mu' = mu

\* StartTraceroute: a.mu.Unlock(); the run goes on in its goroutines
StartUnlock(t) ==
    /\ caller[t] = "startUnlock"
    /\ mu' = 0
    /\ caller' = [caller EXCEPT ![t] = "idle"]
    /\ UNCHANGED <<aCancel, liveCtx, created>>

\* stopTraceroute: a.mu.Lock()
StopLock(t) ==
    /\ caller[t] = "idle"
    /\ MuFree
    /\ mu' = t
    /\ caller' = [caller EXCEPT ![t] = "stopCancel"]
    /\ UNCHANGED <<aCancel, liveCtx, created>>

\* stopTraceroute: if a.cancel != nil { a.cancel(); a.cancel = nil }
StopCancel(t) ==
    /\ caller[t] = "stopCancel"
    /\ liveCtx' = IF aCancel # 0 THEN AfterCancel(liveCtx, aCancel) ELSE liveCtx
    /\ aCancel' = 0
    /\ caller' = [caller EXCEPT ![t] = "stopUnlock"]
    /\ UNCHANGED <<mu, created>>

\* stopTraceroute: the deferred a.mu.Unlock()
StopUnlock(t) ==
    /\ caller[t] = "stopUnlock"
    /\ mu' = 0
    /\ caller' = [caller EXCEPT ![t] = "idle"]
    /\ UNCHANGED <<aCancel, liveCtx, created>>

HandleNext ==
    /\ \E t \in Callers :
          \/ StartLock(t)
          \/ StartCancelPrevious(t)
          \/ StartNew(t)
          \/ StartUnlock(t)
          \/ StopLock(t)
          \/ StopCancel(t)
          \/ StopUnlock(t)
    /\ UNCHANGED <<engineVars, parseVars, cmd, dbVars, uiVars, saveVars, eventVars>>

SpecHandles == Init /\ [][HandleNext]_vars

-----------------------------------------------------------------------------
(* Front end: the live hops *)

\* the hops a 'hop' event can carry: for each TTL a timed-out hop and an
\* answered one
EventHops ==
    {SynthTimeout(t) : t \in TTLs}
    \cup {Hop(t, Dest1, "", r, TRUE, FALSE, FALSE) : t \in TTLs, r \in RTTs}

\* new Map(prev).set(k, v): the entry of k is replaced where it is, a new key
\* is added at the end
MapSet(m, k, v) ==
    IF \E n \in 1 .. Len(m) : m[n].key = k
    THEN [n \in 1 .. Len(m) |-> IF m[n].key = k THEN [key |-> k, val |-> v] ELSE m[n]]
    ELSE Append(m, [key |-> k, val |-> v])

\* [...hopMap().values()]
MapValues(m) == [n \in 1 .. Len(m) |-> m[n].val]

\* h put into the sorted list, after the hops whose ttl is not above its own
InsertByTTL(list, h) ==
    LET before == Cardinality({n \in 1 .. Len(list) : list[n].TTL <= h.TTL})
    IN  SubSeq(list, 1, before) \o <<h>> \o SubSeq(list, before + 1, Len(list))

\* .sort((a, b) => a.ttl - b.ttl)
RECURSIVE SortByTTL(_)
SortByTTL(list) ==
    IF list = <<>> THEN <<>>
    ELSE InsertByTTL(SortByTTL(SubSeq(list, 1, Len(list) - 1)), list[Len(list)])

\* Mutant of liveHops: the values are shown in the order of the map.
liveHopsUnsorted(m) == MapValues(m)

\* const hops = createMemo(() => [...hopMap().values()].sort(...))
liveHops(m) == SortByTTL(MapValues(m))

\* handleStart: setHopMap(new Map())
HandleStart ==
    /\ received # <<>>
    /\ hopMap' = <<>>
    /\ received' = <<>>
    /\ UNCHANGED <<engineVars, parseVars, cmd, dbVars, handleVars, saveVars, eventVars>>

\* EventsOn('hop', ...): setHopMap((prev) => new Map(prev).set(hop.ttl, hop))
OnHop ==
    /\ Len(received) < MaxEvents
    /\ \E h \in EventHops :
          /\ hopMap' = MapSet(hopMap, h.TTL, h)
          /\ received' = Append(received, h)
    /\ UNCHANGED <<engineVars, parseVars, cmd, dbVars, handleVars, saveVars, eventVars>>

UiNext == HandleStart \/ OnHop

SpecUi == Init /\ [][UiNext]_vars

-----------------------------------------------------------------------------
(* The command line of the tool *)

\* opts.TimeoutMs (positive): values below and above one second, the default
TimeoutValues == {1, 250, 500, 999, 1000, 1001, 1500, 2000, 3000}

\* timeoutSecs := opts.TimeoutMs / 1000; if timeoutSecs < 1 { timeoutSecs = 1 }
timeoutSecs(ms) == IF ms \div 1000 < 1 THEN 1 ELSE ms \div 1000

\* the functions that build a command line, and the platforms of each
CmdPaths ==
    {<<"runParallel", g>> : g \in {"darwin", "linux"}}
    \cup {<<"runSequential", g>> : g \in {"windows", "darwin", "linux"}}
    \cup {<<"buildCommand", g>> : g \in {"windows", "darwin", "linux"}}

\* the value after -w, in milliseconds: traceroute takes seconds
\* ("-w", strconv.Itoa(timeoutSecs)), tracert takes milliseconds
\* ("-w", strconv.Itoa(opts.TimeoutMs))
WaitMs(path, goos, ms) ==
    IF goos = "windows" THEN ms ELSE timeoutSecs(ms) * 1000

\* the arguments of the tool are built from opts
BuildArgs ==
    /\ \E pg \in CmdPaths, ms \in TimeoutValues :
          cmd' = [path |-> pg[1], goos |-> pg[2], timeoutMs |-> ms,
                  waitMs |-> WaitMs(pg[1], pg[2], ms)]
    /\ UNCHANGED engineVars
    /\ UNCHANGED <<parseVars, dbVars, handleVars, uiVars, saveVars, eventVars>>

SpecCmd == Init /\ [][BuildArgs]_vars

-----------------------------------------------------------------------------
(* Properties *)

SentIdx == 1 .. Len(sent)

\* The slots whose recorded hop succeeded at an address of the destination
\* (or was marked final by the parser).
Reaching ==
    {k \in Slots : /\ k < maxHops
                   /\ gotResult[k]
                   /\ results[k].Success
                   /\ (results[k].IP \in destIPs \/ results[k].IsFinal)}

\* The lowest TTL that reached the destination, 0 when none did.
LowestReachingTTL ==
    IF Reaching = {} THEN 0
    ELSE (CHOOSE k \in Reaching : \A j \in Reaching : k <= j) + 1

RunningUnits ==
    {g \in TTLs : unit[g].pc \in {"probing", "killed", "lookup", "storing",
                                   "announcing"}}

\* C1: in the parallel strategy a hop is delivered with isFinal = true exactly
\* when its TTL is the lowest TTL whose result succeeded at an address of the
\* destination set (or was marked final by the parser); every other delivered
\* hop has isFinal = false.
C1_LowestReachingIsFinal ==
    strategy = "parallel" =>
        \A n \in SentIdx :
            sent[n].IsFinal <=>
                (LowestReachingTTL # 0 /\ sent[n].TTL = LowestReachingTTL)

\* a final hop recognised by the address set alone was delivered, while a
\* higher TTL reached the destination too
C1_Witness ==
    /\ strategy = "parallel"
    /\ pc = "returned"
    /\ \E n \in SentIdx :
          /\ sent[n].IsFinal
          /\ sent[n].IP # destIP
          /\ \E k \in Reaching : k + 1 > sent[n].TTL

\* C2: in the parallel strategy no hop with a TTL above the lowest TTL that
\* reached the destination is delivered, and once the final hop is delivered
\* the emission loop is over.
C2_NothingBeyondFinal ==
    strategy = "parallel" =>
        /\ LowestReachingTTL # 0 =>
              \A n \in SentIdx : sent[n].TTL <= LowestReachingTTL
        /\ (\E n \in SentIdx : sent[n].TTL = LowestReachingTTL) =>
              pc \in {"finish", "returned"}

\* the run returned with the final hop delivered last, and a probe of a higher
\* TTL had been answered
C2_Witness ==
    /\ strategy = "parallel"
    /\ pc = "returned"
    /\ Len(sent) > 0
    /\ sent[Len(sent)].IsFinal
    /\ \E k \in Slots : /\ k + 1 > sent[Len(sent)].TTL
                        /\ gotResult[k]
                        /\ results[k].Success

C4_OneFinalAndSucceeded ==
    /\ \A m, n \in SentIdx : (sent[m].IsFinal /\ sent[n].IsFinal) => m = n
    /\ \A n \in SentIdx : sent[n].IsFinal => sent[n].Success

\* a sequential run stopped at its final hop after another hop
C4_Witness ==
    /\ strategy = "sequential"
    /\ pc = "returned"
    /\ Len(sent) >= 2
    /\ sent[Len(sent)].IsFinal
    /\ procTTL <= maxHops

\* C5: a parallel run that probed, was not cancelled and in which no probe
\* succeeded has collected maxHops hops, all timed out, has delivered them in
\* the order 1..maxHops and returns ErrMaxHopsReached.
C5_AllTimedOut ==
    ( /\ strategy = "parallel"
      /\ pc = "returned"
      /\ outcome # "error"
      /\ ~cancelled
      /\ \A k \in Slots : ~results[k].Success )
    =>
    ( /\ \A k \in 0 .. (maxHops - 1) : gotResult[k] /\ results[k].IsTimeout
      /\ Len(sent) = maxHops
      /\ \A n \in SentIdx :
            sent[n] = Hop(n, "", "", 0, FALSE, FALSE, TRUE)
      /\ outcome = "ErrMaxHopsReached" )

\* an uncancelled parallel run of two or more TTLs delivered only timed-out hops
C5_Witness ==
    /\ strategy = "parallel"
    /\ pc = "returned"
    /\ ~cancelled
    /\ maxHops >= 2
    /\ Len(sent) = maxHops
    /\ \A n \in SentIdx : sent[n].IsTimeout
    /\ outcome = "ErrMaxHopsReached"

\* C6: a run that started its probing and returns with the cancellation signal
\* raised returns nil, never ErrMaxHopsReached and never a failure error.
C6_CancelledReturnsNil ==
    (pc = "returned" /\ cancelled /\ (ttl >= 1 \/ procTTL >= 1)) => outcome = "nil"

\* C7: in the parallel strategy every hop sent after the cancellation is the
\* hop of a TTL that was already discovered when the run was cancelled.
C7_NothingNewAfterCancel ==
    (strategy = "parallel" /\ cancelled) =>
        \A n \in SentIdx : n > sentAtCancel => sent[n].TTL \in knownAtCancel

\* C8: once the consumer has stopped receiving and the run is cancelled, Run
\* returns.
C8_CancelledSendReturns ==
    (consumer = "stopped" /\ cancelled) ~> (pc = "returned")

C10_SlotOwnership ==
    /\ \A g, h \in TTLs :
          (g # h /\ unit[g].pc # "idle" /\ unit[h].pc # "idle")
              => unit[g].ttl # unit[h].ttl
    /\ \A k \in Slots :
          /\ Len(writers[k]) <= 1
          /\ \A w \in 1 .. Len(writers[k]) : writers[k][w] = k + 1
    /\ \A g \in TTLs :
          unit[g].pc \in {"announcing", "done"} => writers[unit[g].ttl - 1] = <<unit[g].ttl>>
    /\ \A k \in reads :
          /\ Len(writers[k]) = 1
          /\ \A g \in TTLs : unit[g].ttl = k + 1 => unit[g].pc = "done"

\* every slot of a run was written and then read
C10_Witness ==
    /\ pc = "returned"
    /\ maxHops >= 2
    /\ reads = 0 .. (maxHops - 1)
    /\ \A k \in reads : writers[k] = <<k + 1>>

\* a line that starts with a hop number: the only lines a parser accepts
HopShaped(line) == Len(line) >= 1 /\ line[1].k = "num"

\* the output of a process that crashed, printed nothing or printed no hop line
NoHopLine(out) == \A p \in 1 .. Len(out) : ~HopShaped(out[p])

\* the units whose process has not handed its output over yet
InFlight == {g \in TTLs : unit[g].pc \in {"probing", "killed"}}

\* C11: in the parallel strategy a probe whose process crashes, prints nothing
\* or prints no hop-shaped line does not fail the run: its unit gets the hop of
\* its own TTL with Success = FALSE and IsTimeout = TRUE, the step leaves the
\* recorded results alone, and a store changes the slot of its own TTL only.
C11_FailedProbeIsTimeout ==
    /\ []((strategy = "parallel" /\ ttl >= 1) => outcome # "error")
    /\ [](\A g \in InFlight : \A out \in ProbeOutputs(unit[g].ttl) :
             NoHopLine(out) =>
                 ProbeHop(out, unit[g].ttl, destIP)
                     = Hop(unit[g].ttl, "", "", 0, FALSE, FALSE, TRUE))
    /\ [][ /\ \A g \in InFlight :
               unit'[g].pc \notin {"probing", "killed"} =>
                   /\ unit'[g].hop.TTL = unit[g].ttl
                   /\ unit'[g].hop.Success \/ unit'[g].hop.IsTimeout
                   /\ results' = results /\ gotResult' = gotResult
                   /\ \A h \in TTLs \ {g} : unit'[h] = unit[h]
                   /\ pc' = pc /\ outcome' = outcome
           /\ \A k \in Slots :
               (results'[k] # results[k] \/ gotResult'[k] # gotResult[k]) =>
                   \E g \in TTLs : /\ unit[g].pc = "storing"
                                   /\ unit[g].ttl = k + 1
                                   /\ results'[k] = unit[g].hop ]_vars

\* an uncancelled run returned nil with a timed-out slot below a slot that
\* succeeded
C11_Witness ==
    /\ strategy = "parallel"
    /\ pc = "returned"
    /\ ~cancelled
    /\ outcome = "nil"
    /\ gotResult[0] /\ results[0] = Hop(1, "", "", 0, FALSE, FALSE, TRUE)
    /\ \E k \in Slots : k > 0 /\ gotResult[k] /\ results[k].Success

C13_NilHasFinal ==
    (pc = "returned" /\ ~cancelled /\ outcome = "nil") =>
        \E n \in SentIdx : sent[n].IsFinal

\* the slots of the run that hold a collected hop
Collected == {k \in Slots : k < maxHops /\ gotResult[k]}

\* C14: a parallel run that was not cancelled and in which no TTL reached the
\* destination has, when it returns, delivered every collected hop, none
\* skipped and none cut off, and it returns ErrMaxHopsReached.
C14_AllCollectedDelivered ==
    ( /\ strategy = "parallel"
      /\ pc = "returned"
      /\ outcome # "error"
      /\ ~cancelled
      /\ LowestReachingTTL = 0 )
    =>
    ( /\ Len(sent) = Cardinality(Collected)
      /\ \A k \in Collected : \E n \in SentIdx : sent[n] = results[k]
      /\ outcome = "ErrMaxHopsReached" )

\* such a run delivered an answered hop and a timed-out hop
C14_Witness ==
    /\ strategy = "parallel"
    /\ pc = "returned"
    /\ ~cancelled
    /\ outcome = "ErrMaxHopsReached"
    /\ Cardinality(Collected) >= 2
    /\ \E n \in SentIdx : sent[n].Success
    /\ \E n \in SentIdx : sent[n].IsTimeout

\* C15: every run eventually returns, unless the consumer has stopped
\* receiving for good and the run is never cancelled (the tool's process is
\* taken to print its next line or to close its output: the fairness of the
\* specification).
C15_RunReturns ==
    <>(pc = "returned") \/ <>[](consumer = "stopped" /\ ~cancelled)

\* C16: once the run is cancelled the launcher starts no further probe, and
\* no process started by the run is left running: every probe in flight has
\* been killed (and so has the sequential tool).
C16_CancelStopsProbes ==
    [][ cancelled' =>
          /\ \A g \in TTLs : unit[g].pc = "idle" => unit'[g].pc = "idle"
          /\ \A g \in TTLs : unit'[g].pc # "probing"
          /\ proc' # "running" ]_vars

\* the run was cancelled with a probe in flight and TTLs left to launch: the
\* probe is killed and the launcher has left its loop
C16_Witness ==
    /\ cancelled
    /\ pc = "wait"
    /\ ttl <= maxHops
    /\ \E g \in TTLs : unit[g].pc = "killed"
    /\ \E g \in TTLs : g <= maxHops /\ unit[g].pc = "idle"

\* C17: when Run has returned, no process it started is still running: every
\* launched probe unit has finished (its cmd.Output() has returned) and the
\* sequential tool has exited or has been killed.
C17_NoProcessLeft ==
    pc = "returned" =>
        /\ \A g \in TTLs : unit[g].pc \in {"idle", "done"}
        /\ proc # "running"

\* a sequential run stopped reading at its final hop while the tool had hops
\* left to print, and returned after the tool was gone
C17_Witness ==
    /\ strategy = "sequential"
    /\ pc = "returned"
    /\ reachedDest
    /\ procTTL <= maxHops
    /\ proc = "exited"

\* C18: the hop channel is closed only by the App and only after Run has
\* returned: no step of the engine closes it, and no hop is sent on it once it
\* is closed.
C18_CloseAfterReturn ==
    /\ [](chanClosed => pc = "returned")
    /\ [][ /\ chanClosed' # chanClosed => (pc = "returned" /\ pc' = pc /\ sent' = sent)
           /\ sent' # sent => (~chanClosed /\ ~chanClosed') ]_vars

\* the App closed the channel after a run that had delivered hops
C18_Witness ==
    /\ chanClosed
    /\ pc = "returned"
    /\ Len(sent) >= 2

\* C19: in the sequential strategy every parsed hop is sent before the next
\* line is read, and a hop marked final is the last hop sent: the scan loop is
\* over once it is delivered.
C19_SequentialStopsAtFinal ==
    strategy = "sequential" =>
        /\ \A n \in SentIdx :
              sent[n].IsFinal => (n = Len(sent) /\ pc \in {"seqWait", "returned"})
        /\ pc = "seqScan" => Len(sent) = procTTL - 1
        /\ pc = "seqSend" => (Len(sent) = procTTL - 2 /\ pending.TTL = procTTL - 1)

\* the scan loop is over at a final hop, the first hop sent, with lines of
\* further hops still to come from the tool
C19_Witness ==
    /\ strategy = "sequential"
    /\ pc = "seqWait"
    /\ Len(sent) = 1
    /\ sent[1].IsFinal
    /\ procTTL = 2
    /\ maxHops >= 3

\* the hops the engine holds or has sent
ProducedHops ==
    {sent[n] : n \in SentIdx}
    \cup {results[k] : k \in {x \in Slots : gotResult[x]}}
    \cup {unit[g].hop : g \in {x \in TTLs : unit[x].pc \in {"lookup", "storing"}}}
    \cup (IF pc = "seqSend" THEN {pending} ELSE {})

\* C20: every hop the engine produces has IsTimeout and Success consistent: a
\* timed-out hop did not succeed and has an empty address, and a hop that
\* succeeded is not timed out.
C20_TimeoutSuccessConsistent ==
    \A h \in ProducedHops :
        /\ h.IsTimeout => (~h.Success /\ h.IP = "")
        /\ h.Success => ~h.IsTimeout

\* a sequential run has sent a timed-out hop and a hop parsed from a line on
\* which one probe was lost
C20_Witness ==
    /\ strategy = "sequential"
    /\ \E n \in SentIdx : sent[n].IsTimeout
    /\ \E n \in SentIdx : sent[n].Success /\ sent[n].IP = "*"

\* a hop with its IsFinal flag left out of the comparison
ButFinal(h) == [h EXCEPT !.IsFinal = FALSE]

\* C21: in the parallel strategy every delivered hop equals, in every field
\* but IsFinal, the hop its probe recorded in the slot of its TTL, and a hop
\* that has been sent is never changed: sent only grows at its end.
C21_OnlyFinalChanges ==
    /\ [](strategy = "parallel" =>
             \A n \in SentIdx :
                 /\ sent[n].TTL - 1 \in Collected
                 /\ ButFinal(sent[n]) = ButFinal(results[sent[n].TTL - 1]))
    /\ [][ /\ Len(sent') >= Len(sent)
           /\ \A n \in SentIdx : sent'[n] = sent[n]
           /\ pc \in {"emit", "finish", "returned"} => results' = results ]_vars

\* a hop whose name came from the reverse lookup was delivered with the final
\* flag set by reconciliation alone
C21_Witness ==
    /\ strategy = "parallel"
    /\ pc = "returned"
    /\ \E n \in SentIdx :
          /\ sent[n].IsFinal
          /\ ~results[sent[n].TTL - 1].IsFinal
          /\ sent[n].Hostname = RdnsName
          /\ sent[n].RTT > 0

\* runParallel went on with an empty destIPs: the name did not resolve
ResolutionFailed ==
    strategy = "parallel" /\ toolAvailable = "yes" /\ destIPs = {}

\* C26: a parallel run whose destination did not resolve is never failed: it
\* launches every TTL unless it is cancelled, a hop is final only when its
\* address equals the display address destIP literally (the lowest such hop),
\* and the run ends with nil or ErrMaxHopsReached.
C26_ResolutionFailureNotFatal ==
    ResolutionFailed =>
        /\ outcome # "error"
        /\ pc = "returned" => outcome \in {"nil", "ErrMaxHopsReached"}
        /\ (pc \notin {"start", "launch"} /\ ~cancelled) =>
               \A g \in 1 .. maxHops : unit[g].pc # "idle"
        /\ \A n \in SentIdx :
               sent[n].IsFinal <=>
                   /\ sent[n].Success
                   /\ sent[n].IP = destIP
                   /\ \A k \in Collected :
                          (results[k].Success /\ results[k].IP = destIP)
                              => k + 1 >= sent[n].TTL

\* such a run reached the display address after a hop that did not
C26_Witness ==
    /\ ResolutionFailed
    /\ pc = "returned"
    /\ ~cancelled
    /\ outcome = "nil"
    /\ Len(sent) >= 2
    /\ sent[Len(sent)].IsFinal
    /\ sent[1].Success

TimeoutShaped(line) == Len(line) >= 2 /\ line[1].k = "num" /\ line[2].k = "star"

\* an address and a round-trip time are on the line
HasAddressAndRtt(line) ==
    /\ \E p \in 1 .. Len(line) : line[p].k \in {"ip", "pip", "bip"}
    /\ \E p \in 1 .. Len(line) : line[p].k = "ms"

\* C24: a line of the timeout shape that also carries an address and an RTT is
\* parsed as a hop that succeeded, never as a timed-out hop.
C24_HopBeatsTimeout ==
    (parseLast.parser # "none" /\ TimeoutShaped(parseLast.line)
        /\ HasAddressAndRtt(parseLast.line))
    => (parseLast.ok /\ parseLast.hop.Success /\ ~parseLast.hop.IsTimeout)

\* a tracert hop line that ends in "name [address]"
WinNamed(line) == Len(line) = 9 /\ line[8].k = "word" /\ line[9].k = "bip"

\* C29: for a Windows hop line that ends in "hostname [IP]" the parsed hop has
\* that hostname and the bracketed address, and it is final exactly when that
\* address is the destination address.
C29_WindowsNamedHop ==
    (parseLast.parser = "windows" /\ WinNamed(parseLast.line)) =>
        /\ parseLast.ok
        /\ parseLast.hop.Hostname = parseLast.line[8].s
        /\ parseLast.hop.IP = parseLast.line[9].s
        /\ parseLast.hop.IsFinal <=>
               (parseLast.dIP # "" /\ parseLast.line[9].s = parseLast.dIP)

\* C22: the per-hop wait handed to the tool is at least one second, for every
\* opts.TimeoutMs and on every platform.
C22_WaitAtLeastOneSecond ==
    cmd.path # "none" => cmd.waitMs >= 1000

\* C25: the hops shown for a loaded trace are the hops the engine delivered,
\* field by field: the record made of an engine hop, saved, read back in TTL
\* order and turned into a displayed hop is that hop again, a timed-out hop
\* with RTT 0 and no hostname included.
C25_RoundTrip ==
    shown # <<>> =>
        /\ Len(shown) = Len(dbRows)
        /\ Len(shown) <= Len(sent)
        /\ \A n \in 1 .. Len(shown) : shown[n] = sent[n]

\* a loaded trace shows a timed-out hop, a hop that succeeded and the final
\* hop
C25_Witness ==
    /\ Len(shown) >= 3
    /\ shown[1].IsTimeout /\ shown[1].RTT = 0 /\ shown[1].Hostname = ""
    /\ shown[2].Success /\ shown[2].Hostname = ""
    /\ shown[3].IsFinal

\* C27: under every interleaving of StartTraceroute and StopTraceroute calls
\* at most one run context is un-cancelled, the one a.cancel refers to, and
\* when stopTraceroute has done its work none is.
C27_OneLiveRun ==
    /\ Cardinality(liveCtx) <= 1
    /\ \A c \in liveCtx : aCancel = c
    /\ \A t \in Callers : caller[t] = "stopUnlock" => liveCtx = {}

\* a second start has replaced the first run and still holds the lock
C27_Witness ==
    /\ created >= 2
    /\ liveCtx = {created}
    /\ aCancel = created
    /\ \E t \in Callers : caller[t] = "startUnlock"

\* C28: the reverse lookup of a hop is off the critical path: a lookup that
\* does not answer keeps neither its probe unit, nor the barrier, nor a
\* cancelled run from completing, so a cancelled parallel run returns.
C28_LookupOffCriticalPath ==
    (strategy = "parallel" /\ cancelled) ~> (pc = "returned")

\* the position of the latest received event of TTL t
LatestOf(t) ==
    CHOOSE k \in 1 .. Len(received) :
        /\ received[k].TTL = t
        /\ \A j \in 1 .. Len(received) : received[j].TTL = t => j <= k

\* C30: after any sequence of 'hop' events the list of live hops is in
\* strictly ascending TTL order (so one hop per TTL), holds a hop for exactly
\* the TTLs received, and each is the latest hop received for its TTL.
C30_LiveHopsByTTL ==
    LET d == liveHops(hopMap)
    IN  /\ \A m, n \in 1 .. Len(d) : m < n => d[m].TTL < d[n].TTL
        /\ {d[n].TTL : n \in 1 .. Len(d)}
               = {received[k].TTL : k \in 1 .. Len(received)}
        /\ \A n \in 1 .. Len(d) : d[n] = received[LatestOf(d[n].TTL)]

\* a hop arrived before the hop of a lower TTL and was then replaced by a
\* later event of its own TTL
C30_Witness ==
    /\ Len(received) >= 3
    /\ received[1].TTL > received[2].TTL
    /\ received[3].TTL = received[1].TTL
    /\ received[3] # received[1]
    /\ Len(hopMap) = 2

\* the index at which the search for trueFinalTTL stopped
FoundFinalSlot == FindBreak(results, gotResult, destIPs, maxHops, 0)

\* C33: in the parallel strategy the hop in the results slot of TTL t carries
\* TTL = t, every delivered hop is the hop of the slot of its TTL, and
\* after the search the corrected isFinal flag is set for exactly the slot
\* at which the search found the final hop.
C33_SlotCarriesItsTTL ==
    strategy = "parallel" =>
        /\ \A s \in Slots : gotResult[s] => results[s].TTL = s + 1
        /\ \A n \in 1 .. Len(sent) :
              /\ SlotOf(sent[n].TTL) \in Slots
              /\ gotResult[SlotOf(sent[n].TTL)]
              /\ ButFinal(sent[n]) = ButFinal(results[SlotOf(sent[n].TTL)])
        /\ pc \in {"emit", "finish", "returned"} /\ toolAvailable = "yes" =>
              \A s \in Slots :
                  s < maxHops /\ gotResult[s] =>
                      (CorrectedFinal(results[s], trueFinalTTL) <=> s = FoundFinalSlot)

\* the search stopped at the second slot, behind a hop that is not final, and
\* the final hop was delivered
C33_Witness ==
    /\ strategy = "parallel"
    /\ pc = "returned"
    /\ maxHops = MaxHopsBound
    /\ FoundFinalSlot = 1
    /\ trueFinalTTL = 2
    /\ Len(sent) = 2
    /\ sent[1].Success /\ ~sent[1].IsFinal
    /\ sent[2].IsFinal /\ sent[2].TTL = 2

\* C34: for every Options value, opts.MaxHops <= 0 included, Run does not
\* crash and no probe is started for a TTL outside 1 .. opts.MaxHops.
C34_AnyOptionsNoCrash ==
    /\ pc # "panicked"
    /\ \A g \in TTLs : unit[g].pc # "idle" => unit[g].ttl \in 1 .. maxHops

\* the probe goroutines that have not recorded their result yet
Unrecorded == {g \in TTLs : unit[g].pc \in {"probing", "killed", "lookup", "storing"}}

\* C36: a probe goroutine never blocks when it announces its completion: the
\* completion channel never holds more than its capacity opts.MaxHops, no
\* goroutine waits at its send, and the barrier counts exactly the goroutines
\* that have not recorded their result, cancelled or not.
C36_AnnounceNeverBlocks ==
    /\ \A g \in TTLs : unit[g].pc # "announcing"
    /\ strategy = "parallel" /\ pc # "panicked" => emitted <= EmittedCap
    /\ wg = Cardinality(Unrecorded)

\* every goroutine of a full budget has sent on the completion channel, which
\* is now full, and the barrier is open
C36_Witness ==
    /\ pc = "wait"
    /\ ~cancelled
    /\ maxHops = MaxHopsBound
    /\ emitted = EmittedCap
    /\ \A g \in TTLs : unit[g].pc = "done"
    /\ wg = 0

\* the hop rows of trace id, in the order of their insertion
HopsOfTrace(rows, id) == SelectSeq(rows, LAMBDA r : r.trace_id = id)

\* C35: SaveTrace is all-or-nothing.  While the call runs and after it has
\* returned an error, the stored tables are what they were before the call;
\* after it has returned without error, the tables hold one more trace row,
\* under the returned id, whose hopCount + timeoutCount is len(hops), exactly
\* the len(hops) hop rows of the call under that id, and everything that was
\* stored before.
C35_AllOrNothing ==
    /\ saveTx.pc \notin {"idle", "returned"} => stored = saveTx.before
    /\ saveTx.pc = "returned" /\ saveTx.err => stored = saveTx.before
    /\ saveTx.pc = "returned" /\ ~saveTx.err =>
          LET id   == saveTx.id
              hops == saveTx.hops
          IN  /\ id = Len(saveTx.before.traces) + 1
              /\ Len(stored.traces) = id
              /\ SubSeq(stored.traces, 1, id - 1) = saveTx.before.traces
              /\ stored.traces[id].id = id
              /\ stored.traces[id].hop_count + stored.traces[id].timeout_count
                     = Len(hops)
              /\ HopsOfTrace(stored.hops, id)
                     = [k \in 1 .. Len(hops) |-> HopRowOf(id, hops[k])]
              /\ SelectSeq(stored.hops, LAMBDA r : r.trace_id # id)
                     = saveTx.before.hops

\* after a trace was stored, a second call failed at its second hop row,
\* with its trace row and its first hop row already written
C35_Witness ==
    /\ saveTx.pc = "returned"
    /\ saveTx.err
    /\ saveTx.k = 1
    /\ Len(saveTx.hops) = 2
    /\ Len(saveTx.work.traces) = 2
    /\ Len(stored.traces) = 1
    /\ Len(stored.hops) = 2

\* the first run ended by itself, the user started and stopped nothing else,
\* and every event has been delivered
FirstRunOver ==
    /\ fe.run = 1
    /\ ~fe.stopping
    /\ ~goRuns[1].cancelled
    /\ goRuns[1].runner = "done"
    /\ goRuns[1].consumer = "done"
    /\ events = <<>>

\* C31: when Run ends with ErrMaxHopsReached (with another error) the front
\* end finishes in state 'maxhops' ('error'), and a 'traceroute:saved' that
\* was emitted has set savedTraceId: the teardown done for 'traceroute:done'
\* loses none of them.
C31_OutcomeReachesFrontEnd ==
    FirstRunOver =>
        /\ goRuns[1].outcome = "ErrMaxHopsReached" => fe.state = "maxhops"
        /\ goRuns[1].outcome = "error" => fe.state = "error"
        /\ goRuns[1].saved => fe.savedTraceId = 1

\* C32: once StartTraceroute has begun the run the front end shows, no
\* 'hop', 'traceroute:done', 'traceroute:maxhops' or 'traceroute:error' event
\* of an earlier run is applied to the front end.
C32_NoStaleEvent == fe.stale = ""

=============================================================================
